---- MODULE Spec2Model ----
(***************************************************************************)
(* Verification model of the AI meeting agent:                             *)
(*   - parseDurationString and checkAvailability (pure parts of route.ts), *)
(*   - the chat endpoint POST handler with its process-wide meetingDetails,*)
(*   - the AIAgentChat client state machine.                               *)
(* JavaScript strings whose characters matter (the duration text) are      *)
(* sequences of one-character strings; the other field values are opaque.  *)
(***************************************************************************)
EXTENDS Integers, Sequences, FiniteSets, TLC

VARIABLES
    durIn,      \* parseDurationString: the argument (Undefined or a text)
    durOut,     \* parseDurationString: <<>> before the call, then <<value returned>>
    avIn,       \* checkAvailability: environment and arguments of the call
    avOut,      \* checkAvailability: "none" before the call, then the outcome
    meetingDetails, \* route.ts: the process-wide record of extracted fields
    creds,      \* route.ts: which of the two Calendly environment variables are set
    reqs,       \* route.ts: the POST invocations in progress, one per slot: its
                \* position (pc), the arguments of the scheduling call it awaits
                \* (checked, booked), what it has decided so far
    agentState, \* AIAgentChat: 'idle' | 'listening' | 'thinking' | 'speaking'
    isListening, \* AIAgentChat: the isListening flag
    response,   \* AIAgentChat: the displayed response ("" or the reply)
    platform,   \* AIAgentChat: which browser speech capabilities exist
    sessions,   \* AIAgentChat: the closures made by the calls of startListening
    fetches,    \* AIAgentChat: calls of /api/chat neither resolved nor failed
    settled,    \* AIAgentChat: how the call that settled last ended: "none"
                \* before any, "ok" (a success response) or "failed"
    utterances  \* AIAgentChat: the speech synthesis queue, head speaking

durVars == <<durIn, durOut>>
avVars == <<avIn, avOut>>
srvVars == <<meetingDetails, creds, reqs>>
cliVars == <<agentState, isListening, response, platform, sessions, fetches, settled,
             utterances>>
vars == <<durIn, durOut, avIn, avOut, meetingDetails, creds, reqs,
          agentState, isListening, response, platform, sessions, fetches, settled,
          utterances>>

\* ----------------------------------------------------------------------
\* JavaScript values
\* ----------------------------------------------------------------------

\* The number NaN (parseInt of a text without a leading integer, the time
\* value of an Invalid Date).  Every comparison with NaN is false.
NaN == -1000000

\* The value undefined of an absent string.
Undefined == <<"undefined">>

IsNaN(n) == n = NaN

Ge(a, b) == ~IsNaN(a) /\ ~IsNaN(b) /\ a >= b
Gt(a, b) == ~IsNaN(a) /\ ~IsNaN(b) /\ a > b
Le(a, b) == ~IsNaN(a) /\ ~IsNaN(b) /\ a <= b
Lt(a, b) == ~IsNaN(a) /\ ~IsNaN(b) /\ a < b

Digits == {"0", "1", "2", "3", "4", "5", "6", "7", "8", "9"}

DigitVal(c) ==
    CASE c = "0" -> 0 [] c = "1" -> 1 [] c = "2" -> 2 [] c = "3" -> 3
      [] c = "4" -> 4 [] c = "5" -> 5 [] c = "6" -> 6 [] c = "7" -> 7
      [] c = "8" -> 8 [] c = "9" -> 9

IsSpace(c) == c = " "

\* String.prototype.toLowerCase, on the letters the duration texts use.
LowerChar(c) ==
    CASE c = "H" -> "h" [] c = "O" -> "o" [] c = "U" -> "u" [] c = "R" -> "r"
      [] c = "M" -> "m" [] c = "I" -> "i" [] c = "N" -> "n"
      [] OTHER -> c

toLowerCase(s) == [i \in 1..Len(s) |-> LowerChar(s[i])]

RECURSIVE SkipSpaces(_, _)
\* Index of the first non-space character of s at or after i (Len(s)+1 if none).
SkipSpaces(s, i) ==
    IF i <= Len(s) /\ IsSpace(s[i]) THEN SkipSpaces(s, i + 1) ELSE i

RECURSIVE LastNonSpace(_, _)
\* Index of the last non-space character of s at or before i (0 if none).
LastNonSpace(s, i) ==
    IF i >= 1 /\ IsSpace(s[i]) THEN LastNonSpace(s, i - 1) ELSE i

\* String.prototype.trim.
trim(s) ==
    LET a == SkipSpaces(s, 1)
        b == LastNonSpace(s, Len(s))
    IN  IF a > b THEN <<>> ELSE SubSeq(s, a, b)

\* String.prototype.includes.
includes(s, sub) ==
    \E i \in 1..(Len(s) - Len(sub) + 1) : SubSeq(s, i, i + Len(sub) - 1) = sub

RECURSIVE DigitRun(_, _, _)
\* The value of the run of decimal digits of s starting at i, given the value
\* acc of the digits already read.
DigitRun(s, i, acc) ==
    IF i <= Len(s) /\ s[i] \in Digits
        THEN DigitRun(s, i + 1, 10 * acc + DigitVal(s[i]))
        ELSE acc

\* parseInt(s, 10): leading white space is skipped, one sign is accepted, the
\* digits that follow are read and the rest is ignored; NaN without a digit.
parseInt(s) ==
    LET a == SkipSpaces(s, 1)
        signed == a <= Len(s) /\ s[a] \in {"-", "+"}
        neg == a <= Len(s) /\ s[a] = "-"
        d == IF signed THEN a + 1 ELSE a
    IN  IF d <= Len(s) /\ s[d] \in Digits
            THEN (IF neg THEN 0 - DigitRun(s, d, 0) ELSE DigitRun(s, d, 0))
            ELSE NaN

\* ----------------------------------------------------------------------
\* parseDurationString (route.ts 242-258)
\* ----------------------------------------------------------------------

\* parseDurationString without the 5-minute floor of a bare numeral.
parseDurationStringNoFloor(durationStr) ==
    IF durationStr = Undefined \/ durationStr = <<>> THEN 30
    ELSE
        LET lower == trim(toLowerCase(durationStr))
            directNum == parseInt(lower)
        IN  IF includes(lower, <<"h", "o", "u", "r">>) \/ includes(lower, <<"h", "r">>)
                THEN (IF Ge(directNum, 1) THEN directNum * 60 ELSE 30)
            ELSE IF includes(lower, <<"m", "i", "n">>)
                THEN (IF Ge(directNum, 5) THEN directNum ELSE 30)
            ELSE IF ~IsNaN(directNum) /\ directNum > 0
                THEN directNum
            ELSE 30

\* parseDurationString without the guards on the number of hours and minutes.
parseDurationStringUnguarded(durationStr) ==
    IF durationStr = Undefined \/ durationStr = <<>> THEN 30
    ELSE
        LET lower == trim(toLowerCase(durationStr))
            directNum == parseInt(lower)
        IN  IF includes(lower, <<"h", "o", "u", "r">>) \/ includes(lower, <<"h", "r">>)
                THEN (IF IsNaN(directNum) THEN NaN ELSE directNum * 60)
            ELSE IF includes(lower, <<"m", "i", "n">>)
                THEN directNum
            ELSE IF ~IsNaN(directNum) /\ directNum > 0
                THEN (IF directNum < 5 THEN 5 ELSE directNum)
            ELSE 30

parseDurationString(durationStr) ==
    IF durationStr = Undefined \/ durationStr = <<>> THEN 30
    ELSE
        LET lower == trim(toLowerCase(durationStr))
            directNum == parseInt(lower)
        IN  IF includes(lower, <<"h", "o", "u", "r">>) \/ includes(lower, <<"h", "r">>)
                THEN (IF Ge(directNum, 1) THEN directNum * 60 ELSE 30)
            ELSE IF includes(lower, <<"m", "i", "n">>)
                THEN (IF Ge(directNum, 5) THEN directNum ELSE 30)
            ELSE IF ~IsNaN(directNum) /\ directNum > 0
                THEN (IF directNum < 5 THEN 5 ELSE directNum)
            ELSE 30

\* Pieces the duration texts of the model are assembled from.
DurFrags ==
    { <<>>, <<"2">>, <<"1", "0">>, <<"4", "5">>, <<"3">>, <<"0">>, <<"-">>, <<" ">>,
      <<"h", "o", "u", "r">>, <<"h", "o", "u", "r", "s">>, <<"h", "r">>,
      <<"m", "i", "n">>, <<"s">>, <<"H", "O", "U", "R">>, <<"x">> }

\* Largest number of pieces in a duration text.
MaxFrags == 3

RECURSIVE DurTexts(_)
DurTexts(n) ==
    IF n = 0 THEN {<<>>}
    ELSE {s \o f : s \in DurTexts(n - 1), f \in DurFrags}

DurInputs == DurTexts(MaxFrags) \cup {Undefined}

DurInit ==
    /\ durIn \in DurInputs
    /\ durOut = <<>>

DurParked ==
    /\ durIn = Undefined
    /\ durOut = <<>>

\* The call parseDurationString(durIn).
DurApply ==
    /\ durOut = <<>>
    /\ durOut' = <<parseDurationString(durIn)>>
    /\ UNCHANGED <<durIn, avVars, srvVars, cliVars>>

\* ----------------------------------------------------------------------
\* checkAvailability (route.ts 123-175)
\* ----------------------------------------------------------------------

\* Latest instant (in minutes) of the modelled calendar.
MaxT == 3

\* Largest number of events the provider returns in one fetch.
MaxEvents == 2

\* One element of data.collection.
Events ==
    {[status |-> st, start_time |-> s, end_time |-> e] :
        st \in {"active", "canceled"}, s \in 0..MaxT, e \in 0..MaxT}

\* Events as a calendar holds them: no event ends before it starts.
CalendarEvents == {ev \in Events : ev.start_time <= ev.end_time}

RECURSIVE SeqsUpTo(_, _)
\* The sequences of at most n elements of S.
SeqsUpTo(S, n) ==
    IF n = 0 THEN {<<>>}
    ELSE LET shorter == SeqsUpTo(S, n - 1)
         IN  shorter \cup {Append(q, x) : q \in {r \in shorter : Len(r) = n - 1}, x \in S}

\* Date.prototype.setMinutes(getMinutes() + duration) on a copy of start:
\* an Invalid Date stays invalid, and a NaN argument makes the date invalid.
AddMinutes(start, duration) ==
    IF IsNaN(start) \/ IsNaN(duration) THEN NaN ELSE start + duration

\* The overlap test with a closed right end in its first disjunct.
OverlapsClosed(requestedStart, requestedEnd, eventStart, eventEnd) ==
    \/ (Ge(requestedStart, eventStart) /\ Le(requestedStart, eventEnd))
    \/ (Gt(requestedEnd, eventStart) /\ Le(requestedEnd, eventEnd))
    \/ (Le(requestedStart, eventStart) /\ Ge(requestedEnd, eventEnd))

\* The overlap test of lines 164-166.
Overlaps(requestedStart, requestedEnd, eventStart, eventEnd) ==
    \/ (Ge(requestedStart, eventStart) /\ Lt(requestedStart, eventEnd))
    \/ (Gt(requestedEnd, eventStart) /\ Le(requestedEnd, eventEnd))
    \/ (Le(requestedStart, eventStart) /\ Ge(requestedEnd, eventEnd))

RECURSIVE ScanEventsAnyStatus(_, _, _, _)
\* The loop without the status filter of line 159.
ScanEventsAnyStatus(collection, i, requestedStart, requestedEnd) ==
    IF i > Len(collection) THEN "true"
    ELSE IF Overlaps(requestedStart, requestedEnd,
                     collection[i].start_time, collection[i].end_time)
        THEN "false"
    ELSE ScanEventsAnyStatus(collection, i + 1, requestedStart, requestedEnd)

RECURSIVE ScanEvents(_, _, _, _)
\* The loop of lines 158-170 from element i on: "false" at the first active
\* event that overlaps, "true" when the collection is exhausted.
ScanEvents(collection, i, requestedStart, requestedEnd) ==
    IF i > Len(collection) THEN "true"
    ELSE IF collection[i].status # "active"
        THEN ScanEvents(collection, i + 1, requestedStart, requestedEnd)
    ELSE IF Overlaps(requestedStart, requestedEnd,
                     collection[i].start_time, collection[i].end_time)
        THEN "false"
    ELSE ScanEvents(collection, i + 1, requestedStart, requestedEnd)

\* The body of the try block: "true", "false", or "throw" when the fetch
\* rejects or its body does not parse into an iterable collection.
checkAvailabilityTry(env, requestedStart, duration) ==
    IF ~env.key \/ ~env.uri THEN "false"
    ELSE IF env.fetch = "throws" THEN "throw"
    ELSE IF env.fetch = "notOk" THEN "false"
    ELSE ScanEvents(env.events, 1, requestedStart, AddMinutes(requestedStart, duration))

\* A catch block that reports the slot free.
checkAvailabilityCatchOpen == "true"

\* What the catch block of lines 171-174 returns.
checkAvailabilityCatch == "false"

\* checkAvailability as its caller sees it: "true", "false", or "throw" if an
\* exception escaped.
checkAvailability(env, requestedStart, duration) ==
    LET r == checkAvailabilityTry(env, requestedStart, duration)
    IN  IF r = "throw" THEN checkAvailabilityCatch ELSE r

\* Requested start instants: valid ones and the Invalid Date.
StartArgs == (0..MaxT) \cup {NaN}

\* Duration arguments: parseInt results, among them zero, a negative and NaN.
DurationArgs == {-1, 0, 1, 2, NaN}

\* Fetch outcomes: a success response, a non-success response, a rejected
\* fetch or a body that does not parse.
FetchOutcomes == {"ok", "notOk", "throws"}

NoAvInput == [env |-> [key |-> FALSE, uri |-> FALSE, fetch |-> "throws", events |-> <<>>],
              start |-> NaN, duration |-> NaN]

\* Environments of a call (credentials, the fetch outcome, the events
\* fetched) and its arguments.  Without credentials or a successful fetch no
\* event is read.
AvInit ==
    /\ \E k \in BOOLEAN, u \in BOOLEAN, f \in FetchOutcomes,
          evs \in SeqsUpTo(CalendarEvents, MaxEvents),
          s \in StartArgs, d \in DurationArgs :
            /\ (k /\ u /\ f = "ok") \/ evs = <<>>
            /\ avIn = [env |-> [key |-> k, uri |-> u, fetch |-> f, events |-> evs],
                       start |-> s, duration |-> d]
    /\ avOut = "none"

AvParked ==
    /\ avIn = NoAvInput
    /\ avOut = "none"

\* The call checkAvailability(date, time, duration) in environment avIn.env.
AvApply ==
    /\ avOut = "none"
    /\ avOut' = checkAvailability(avIn.env, avIn.start, avIn.duration)
    /\ UNCHANGED <<avIn, durVars, srvVars, cliVars>>

\* ----------------------------------------------------------------------
\* The chat endpoint (route.ts 8-121) and createOneOffEvent (177-240)
\* ----------------------------------------------------------------------

Fields == {"attendee", "date", "time", "duration", "purpose"}

\* The empty object {}.
EmptyObj == [f \in {} |-> ""]

\* The empty string of a field, which also stands for a JSON null: both are
\* falsy.  The duration is a character sequence, the other fields are opaque.
Blank(f) == IF f = "duration" THEN <<>> ELSE ""

\* obj.f: the value of the field, undefined when the object has no such key.
Field(obj, f) ==
    IF f \in DOMAIN obj THEN obj[f]
    ELSE IF f = "duration" THEN Undefined ELSE "undefined"

\* A field that holds a non-empty value.
NonEmpty(obj, f) == f \in DOMAIN obj /\ obj[f] # Blank(f)

\* A read of the field without the fallback.
OrElseNoFallback(obj, f, fallback) == Field(obj, f)

\* v || fallback, for the value v of field f.
OrElse(obj, f, fallback) == IF NonEmpty(obj, f) THEN obj[f] ELSE fallback

\* An assignment of b instead of a merge.
SpreadReplaces(a, b) == b

\* A merge that blanks a field when the new value repeats the stored one.
SpreadToggles(a, b) ==
    [f \in (DOMAIN a) \cup (DOMAIN b) |->
        IF f \notin DOMAIN b THEN a[f]
        ELSE IF f \in DOMAIN a /\ a[f] = b[f] THEN Blank(f)
        ELSE b[f]]

\* { ...a, ...b } (line 83): every key of b overwrites the key of a.
Spread(a, b) ==
    [f \in (DOMAIN a) \cup (DOMAIN b) |-> IF f \in DOMAIN b THEN b[f] ELSE a[f]]

TheDate == "2025-03-01"
Dur30 == <<"3", "0">>
Dur1Hour == <<"1", " ", "h", "o", "u", "r">>

\* The details objects the language model returns in the model: the empty
\* object, a partial extraction, the prompt's template with the unknown fields
\* left blank, and two complete extractions.
DetailObjs ==
    { EmptyObj,
      [date |-> TheDate, time |-> "10:00"],
      [attendee |-> "Sam", date |-> "", time |-> "", duration |-> <<>>, purpose |-> ""],
      [attendee |-> "Sam", date |-> TheDate, time |-> "10:00",
       duration |-> Dur30, purpose |-> "sync"],
      [attendee |-> "Sam", date |-> TheDate, time |-> "3pm",
       duration |-> Dur1Hour, purpose |-> "sync"] }

\* new Date(`${date}T${time}`).getTime() in minutes of the day: only a
\* well-formed date with a well-formed time gives a valid Date.
StartOf(date, time) ==
    IF date = TheDate /\ time = "10:00" THEN 600 ELSE NaN

\* Events of the provider's calendar on TheDate.
SrvEvents ==
    { [status |-> "active", start_time |-> 600, end_time |-> 630],
      [status |-> "active", start_time |-> 630, end_time |-> 660],
      [status |-> "canceled", start_time |-> 600, end_time |-> 630] }

\* What the language-model call produces: an exception, an empty content, a
\* content that JSON.parse rejects, or a JSON object.
AiReplies ==
    {[kind |-> k, type |-> "", hasDetails |-> FALSE, details |-> EmptyObj,
      missingInfo |-> "absent"] : k \in {"throws", "empty", "unparseable"}}
    \cup
    {[kind |-> "json", type |-> t, hasDetails |-> FALSE, details |-> EmptyObj,
      missingInfo |-> m] :
        t \in {"meeting_request", "general_response", "greeting", "other"},
        m \in {"absent", "empty", "nonEmpty"}}
    \cup
    {[kind |-> "json", type |-> "meeting_request", hasDetails |-> TRUE, details |-> d,
      missingInfo |-> m] :
        d \in DetailObjs, m \in {"absent", "empty", "nonEmpty"}}

\* parsedResponse (line 81), as far as the handler branches on it; it exists
\* only on the continuation path, once JSON.parse has succeeded.
AiSummary(ai) ==
    [kind |-> ai.kind, type |-> ai.type, hasDetails |-> ai.hasDetails,
     missingInfo |-> ai.missingInfo]

NoAi == [kind |-> "none", type |-> "", hasDetails |-> FALSE, missingInfo |-> "absent"]
NoCheck == [date |-> "", time |-> "", minutes |-> NaN]
NoBook == [date |-> "", minutes |-> NaN, name |-> ""]
NoReply == [status |-> 0, text |-> "", url |-> FALSE]

\* NextResponse.json({ response: text }) with or without a scheduling URL
\* appended, and the two status-500 error bodies.
Reply(status, text, url) == [status |-> status, text |-> text, url |-> url]

\* Concurrent invocations of POST in the model.
MaxReqs == 2
ReqIds == 1..MaxReqs

\* The fixed refusal sent as an error response.
NotAvailableReplyAsError == Reply(500, "error", FALSE)

\* The fixed refusal of line 92, sent with the default status 200.
NotAvailableReply == Reply(200, "notAvailable", FALSE)

\* A catch block that answers a parse failure with a server error.
ParseCatchReplyAsError == Reply(500, "error", FALSE)

\* The reply of the catch block of lines 107-110.
ParseCatchReply == Reply(200, "parseError", FALSE)

\* One invocation of POST: where it stands (pc), the outcome of the
\* completion (ai), the arguments of its checkAvailability call (checked), the
\* events that call fetched (events) and its result (isAvailable), the event
\* createOneOffEvent asks for (booked) and its result (created), the
\* scheduling calls made so far (calls) and the response (reply).
FreeReq ==
    [pc |-> "free", isInitial |-> FALSE, ai |-> NoAi, checked |-> NoCheck,
     events |-> {}, isAvailable |-> "none", booked |-> NoBook, created |-> "none",
     calls |-> <<>>, reply |-> NoReply]

SrvInit ==
    /\ meetingDetails = EmptyObj
    /\ creds \in [key : BOOLEAN, uri : BOOLEAN]
    /\ reqs = [r \in ReqIds |-> FreeReq]

SrvParked ==
    /\ meetingDetails = EmptyObj
    /\ creds = [key |-> FALSE, uri |-> FALSE]
    /\ reqs = [r \in ReqIds |-> FreeReq]

\* A test that takes every parsed reply for a meeting request.
IsMeetingRequestAlways(ai) == TRUE

\* parsedResponse.type === "meeting_request" && parsedResponse.details (line 82).
IsMeetingRequest(ai) == ai.type = "meeting_request" /\ ai.hasDetails

\* The condition of line 85 that no malformed missingInfo passes.
AllInfoPresentOrAbsent(ai) == ai.missingInfo \in {"empty", "absent"}

\* parsedResponse.missingInfo && parsedResponse.missingInfo.length === 0 (line 85).
AllInfoPresent(ai) == ai.missingInfo = "empty"

\* A handler that books whatever the availability check said.
SlotRefusedNever(isAvailable) == FALSE

\* !isAvailable (line 91).
SlotRefused(isAvailable) == isAvailable = "false"

\* Lines 17-64: the body is read and the completion is requested; a body that
\* is not JSON ends the request in the outer catch (lines 114-119).
Receive(r, isInitial, bodyOk) ==
    /\ reqs[r].pc = "free"
    /\ reqs' = [reqs EXCEPT ![r] =
            IF bodyOk
                THEN [FreeReq EXCEPT !.pc = "llm", !.isInitial = isInitial]
                ELSE [FreeReq EXCEPT !.pc = "done",
                                     !.reply = Reply(500, "error", FALSE)]]
    /\ UNCHANGED <<meetingDetails, creds, durVars, avVars, cliVars>>

\* Lines 66-113, up to the await of checkAvailability's fetch: the completion
\* has returned ai (or thrown).
LlmReturns(r, ai) ==
    LET q == reqs[r]
        fail(reply) == [q EXCEPT !.pc = "done", !.ai = [NoAi EXCEPT !.kind = ai.kind],
                                 !.reply = reply]
        done(reply) == [q EXCEPT !.pc = "done", !.ai = AiSummary(ai), !.reply = reply]
        merged == Spread(meetingDetails, ai.details)
    IN
    /\ q.pc = "llm"
    /\ IF ai.kind = "throws" THEN
            /\ reqs' = [reqs EXCEPT ![r] = fail(Reply(500, "llmError", FALSE))]
            /\ UNCHANGED meetingDetails
       ELSE IF ai.kind = "empty" THEN
            /\ reqs' = [reqs EXCEPT ![r] = fail(Reply(200, "apology", FALSE))]
            /\ UNCHANGED meetingDetails
       ELSE IF q.isInitial THEN
            /\ reqs' = [reqs EXCEPT ![r] = fail(Reply(200, "raw", FALSE))]
            /\ UNCHANGED meetingDetails
       ELSE IF ai.kind = "unparseable" THEN
            /\ reqs' = [reqs EXCEPT ![r] = fail(ParseCatchReply)]
            /\ UNCHANGED meetingDetails
       ELSE IF IsMeetingRequest(ai) THEN
            /\ meetingDetails' = merged
            /\ IF AllInfoPresent(ai)
                 THEN reqs' = [reqs EXCEPT ![r] =
                        [q EXCEPT !.pc = "avail", !.ai = AiSummary(ai),
                                  !.calls = <<"check">>,
                                  !.checked =
                                      [date |-> Field(merged, "date"),
                                       time |-> Field(merged, "time"),
                                       minutes |-> parseInt(OrElse(merged, "duration", Dur30))]]]
                 ELSE reqs' = [reqs EXCEPT ![r] = done(Reply(200, "model", FALSE))]
       ELSE IF ai.type \in {"general_response", "greeting"} THEN
            /\ reqs' = [reqs EXCEPT ![r] = done(Reply(200, "model", FALSE))]
            /\ UNCHANGED meetingDetails
       ELSE
            /\ reqs' = [reqs EXCEPT ![r] = done(Reply(200, "invalid", FALSE))]
            /\ UNCHANGED meetingDetails
    /\ UNCHANGED <<creds, durVars, avVars, cliVars>>

\* Lines 86-95: checkAvailability has settled (its fetch answered with the
\* events evs, or failed); the slot is refused, or createOneOffEvent is called
\* with the record meetingDetails holds now and runs up to its own fetch.
\* The arguments of the check stay on record while the booking is awaited.
AvailReturns(r, fetch, evs) ==
    LET q == reqs[r]
        env == [key |-> creds.key, uri |-> creds.uri, fetch |-> fetch, events |-> evs]
        isAvailable == checkAvailability(env, StartOf(q.checked.date, q.checked.time),
                                         q.checked.minutes)
        events == {evs[i] : i \in 1..Len(evs)}
    IN
    /\ q.pc = "avail"
    /\ (creds.key /\ creds.uri /\ fetch = "ok") \/ evs = <<>>
    /\ IF SlotRefused(isAvailable)
         THEN reqs' = [reqs EXCEPT ![r] =
                [q EXCEPT !.pc = "done", !.isAvailable = isAvailable,
                          !.checked = NoCheck, !.events = events,
                          !.reply = NotAvailableReply]]
         ELSE reqs' = [reqs EXCEPT ![r] =
                [q EXCEPT !.pc = "create", !.isAvailable = isAvailable,
                          !.events = events,
                          !.calls = Append(q.calls, "create"),
                          !.booked =
                              [date |-> OrElse(meetingDetails, "date", "2025-01-01"),
                               minutes |-> parseDurationString(Field(meetingDetails, "duration")),
                               name |-> OrElse(meetingDetails, "purpose", "One-Off Meeting")]]]
    /\ UNCHANGED <<meetingDetails, creds, durVars, avVars, cliVars>>

\* The outcomes of the provider's event creation: a scheduling URL, a success
\* response without one, a non-success response, a rejected fetch.
CreateOutcomes == {"url", "noUrl", "notOk", "throws"}

\* A try block without the check of the credentials.
createOneOffEventTryUnchecked(env, outcome) ==
    IF outcome = "throws" THEN "throw"
    ELSE IF outcome = "notOk" THEN "errorFailedToCreate"
    ELSE IF outcome = "noUrl" THEN "errorNoSchedulingUrl"
    ELSE "schedulingUrl"

\* The try block of createOneOffEvent (lines 184-234) once the provider's
\* fetch has settled with outcome: the result object it returns, named by its
\* key and error text, or "throw" when the fetch or the parsing of its body
\* throws.
createOneOffEventTry(env, outcome) ==
    IF ~env.key \/ ~env.uri THEN "errorMissingCredentials"
    ELSE IF outcome = "throws" THEN "throw"
    ELSE IF outcome = "notOk" THEN "errorFailedToCreate"
    ELSE IF outcome = "noUrl" THEN "errorNoSchedulingUrl"
    ELSE "schedulingUrl"

\* What the catch block of lines 235-239 returns.
createOneOffEventCatch == "errorFailedToCreate"

\* createOneOffEvent as its caller sees it.
createOneOffEvent(env, outcome) ==
    LET r == createOneOffEventTry(env, outcome)
    IN  IF r = "throw" THEN createOneOffEventCatch ELSE r

\* calendlyResponse.schedulingUrl is truthy (line 96).
HasSchedulingUrl(outcome) == createOneOffEvent(creds, outcome) = "schedulingUrl"

\* Lines 95-101: createOneOffEvent has settled.
CreateReturns(r, outcome) ==
    LET q == reqs[r]
    IN
    /\ q.pc = "create"
    /\ IF HasSchedulingUrl(outcome)
         THEN /\ reqs' = [reqs EXCEPT ![r] =
                    [q EXCEPT !.pc = "done", !.checked = NoCheck, !.booked = NoBook,
                              !.events = {},
                              !.created = createOneOffEvent(creds, outcome),
                              !.reply = Reply(200, "model", TRUE)]]
              /\ meetingDetails' = EmptyObj
         ELSE /\ reqs' = [reqs EXCEPT ![r] =
                    [q EXCEPT !.pc = "done", !.checked = NoCheck, !.booked = NoBook,
                              !.events = {},
                              !.created = createOneOffEvent(creds, outcome),
                              !.reply = Reply(200, "model", FALSE)]]
              /\ UNCHANGED meetingDetails
    /\ UNCHANGED <<creds, durVars, avVars, cliVars>>

\* The response has been sent; the slot serves the next request.
Respond(r) ==
    /\ reqs[r].pc = "done"
    /\ reqs' = [reqs EXCEPT ![r] = FreeReq]
    /\ UNCHANGED <<meetingDetails, creds, durVars, avVars, cliVars>>

SrvNext ==
    \E r \in ReqIds :
        \/ \E isInitial \in BOOLEAN, bodyOk \in BOOLEAN : Receive(r, isInitial, bodyOk)
        \/ \E ai \in AiReplies : LlmReturns(r, ai)
        \/ \E fetch \in FetchOutcomes, evs \in SeqsUpTo(SrvEvents, MaxEvents) :
                AvailReturns(r, fetch, evs)
        \/ \E outcome \in CreateOutcomes : CreateReturns(r, outcome)
        \/ Respond(r)

\* ----------------------------------------------------------------------
\* The client state machine (AIAgentChat.tsx 59-215)
\* ----------------------------------------------------------------------

\* Calls of startListening in a run of the model.
MaxSessions == 2

\* Calls of /api/chat that the model lets be outstanding together.
MaxInflight == 2

\* Utterances the model lets wait in the synthesis queue together.
MaxUtter == 2

SessIds == 1..MaxSessions

\* One call of startListening: the recognition object (status, and the error
\* it reported until its end event) and the three variables of its closure.
\* finalTranscript is "" (no final segment yet), " " (final segments of white
\* space only) or "text"; noInputTimer tells whether a timeout of the closure
\* is pending.
NoSession ==
    [status |-> "unused", error |-> "", finalTranscript |-> "", greetingSent |-> FALSE,
     noInputTimer |-> FALSE]

NewSession ==
    [status |-> "starting", error |-> "", finalTranscript |-> "", greetingSent |-> FALSE,
     noInputTimer |-> FALSE]

\* event.error of an error event: the transient no-speech and a fatal one.
RecognitionErrors == {"no-speech", "network"}

\* Segments of one result event: interim ones only, or at least one final
\* segment, of white space only or with words.
Segments == {"interim", "blankFinal", "final"}

\* finalTranscript += transcript + ' ' for the final segments (lines 181-186).
Accumulate(finalTranscript, seg) ==
    IF seg = "interim" THEN finalTranscript
    ELSE IF seg = "final" \/ finalTranscript = "text" THEN "text"
    ELSE " "

\* The test of line 189 without the trim.
HasInputUntrimmed(finalTranscript) == finalTranscript # ""

\* finalTranscript.trim() is non-empty (line 189).
HasInput(finalTranscript) == finalTranscript = "text"

\* recognition.stop(): a running recognition winds down, anything else is
\* left as it is.
Stop(status) == IF status \in {"starting", "active"} THEN "stopping" ELSE status

CliInit ==
    /\ agentState = "idle"
    /\ isListening = FALSE
    /\ response = ""
    /\ platform \in [recognition : BOOLEAN, synthesis : BOOLEAN]
    /\ sessions = [s \in SessIds |-> NoSession]
    /\ fetches = 0
    /\ settled = "none"
    /\ utterances = <<>>

CliParked ==
    /\ agentState = "idle"
    /\ isListening = FALSE
    /\ response = ""
    /\ platform = [recognition |-> FALSE, synthesis |-> FALSE]
    /\ sessions = [s \in SessIds |-> NoSession]
    /\ fetches = 0
    /\ settled = "none"
    /\ utterances = <<>>

\* speakResponse (lines 105-123): without speech synthesis nothing happens,
\* otherwise the utterance joins the queue of speechSynthesis.speak.
speakResponse(queue, utterance) ==
    IF platform.synthesis THEN Append(queue, utterance) ELSE queue

\* The button (line 256): startListening, lines 125-215.
ClickStart ==
    /\ IF platform.recognition
         THEN \E s \in SessIds :
                /\ sessions[s].status = "unused"
                /\ \A t \in SessIds : t < s => sessions[t].status # "unused"
                /\ sessions' = [sessions EXCEPT ![s] = NewSession]
         ELSE UNCHANGED sessions
    /\ UNCHANGED <<agentState, isListening, response, platform, fetches, utterances>>
    /\ UNCHANGED <<settled, durVars, avVars, srvVars>>

\* recognition.onstart (lines 171-175).
OnStart(s) ==
    /\ sessions[s].status = "starting"
    /\ agentState' = "listening"
    /\ isListening' = TRUE
    /\ sessions' = [sessions EXCEPT ![s].status = "active", ![s].noInputTimer = TRUE]
    /\ UNCHANGED <<response, platform, fetches, utterances>>
    /\ UNCHANGED <<settled, durVars, avVars, srvVars>>

\* recognition.onresult (lines 177-198) together with the synchronous part of
\* handleUserInput (lines 68-78).  A recognition that was told to stop may
\* still deliver results for the audio it holds.
OnResult(s, seg) ==
    LET finalTranscript == Accumulate(sessions[s].finalTranscript, seg)
    IN
    /\ sessions[s].status \in {"active", "stopping"}
    /\ IF HasInput(finalTranscript)
         THEN /\ fetches < MaxInflight
              /\ sessions' = [sessions EXCEPT ![s].finalTranscript = finalTranscript,
                                              ![s].noInputTimer = FALSE,
                                              ![s].status = Stop(@)]
              /\ agentState' = "thinking"
              /\ fetches' = fetches + 1
         ELSE /\ sessions' = [sessions EXCEPT ![s].finalTranscript = finalTranscript,
                                              ![s].noInputTimer = TRUE]
              /\ UNCHANGED <<agentState, fetches>>
    /\ UNCHANGED <<isListening, response, platform, utterances>>
    /\ UNCHANGED <<settled, durVars, avVars, srvVars>>

\* recognition.onerror (lines 200-205), which treats every event.error alike;
\* the end event follows an error.
OnError(s, error) ==
    /\ sessions[s].status \in {"starting", "active", "stopping"}
    /\ sessions' = [sessions EXCEPT ![s].status = "failed", ![s].error = error,
                                    ![s].noInputTimer = FALSE]
    /\ isListening' = FALSE
    /\ agentState' = "idle"
    /\ UNCHANGED <<response, platform, fetches, utterances>>
    /\ UNCHANGED <<settled, durVars, avVars, srvVars>>

\* recognition.onend (lines 207-211): after stop(), after an error, or when
\* the recognizer ends the session by itself.
OnEnd(s) ==
    /\ sessions[s].status \in {"active", "stopping", "failed"}
    /\ sessions' = [sessions EXCEPT ![s].status = "ended", ![s].error = "",
                                    ![s].noInputTimer = FALSE]
    /\ isListening' = FALSE
    /\ agentState' = "idle"
    /\ UNCHANGED <<response, platform, fetches, utterances>>
    /\ UNCHANGED <<settled, durVars, avVars, srvVars>>

\* The timeout callback of setNoInputTimer (lines 149-168).
NoInputTimeout(s) ==
    /\ sessions[s].noInputTimer
    /\ IF ~sessions[s].greetingSent
         THEN /\ platform.synthesis => Len(utterances) < MaxUtter
              /\ sessions' = [sessions EXCEPT ![s].noInputTimer = FALSE,
                                              ![s].greetingSent = TRUE]
              /\ agentState' = "speaking"
              /\ utterances' = speakResponse(utterances, [kind |-> "greeting", session |-> s])
              /\ UNCHANGED isListening
         ELSE /\ sessions' = [sessions EXCEPT ![s].noInputTimer = FALSE,
                                              ![s].status = Stop(@)]
              /\ agentState' = "idle"
              /\ isListening' = FALSE
              /\ UNCHANGED utterances
    /\ UNCHANGED <<response, platform, fetches>>
    /\ UNCHANGED <<settled, durVars, avVars, srvVars>>

\* A catch block that forgets to reset the state.
FetchFailedStateStuck == "thinking"

\* The state the catch block of lines 86-89 sets.
FetchFailedState == "idle"

\* The continuation of handleUserInput after the fetch (lines 80-89): ok is
\* a response with a success status, otherwise the catch block runs.
FetchSettles(ok) ==
    /\ fetches > 0
    /\ fetches' = fetches - 1
    /\ settled' = IF ok THEN "ok" ELSE "failed"
    /\ IF ok
         THEN /\ platform.synthesis => Len(utterances) < MaxUtter
              /\ agentState' = "speaking"
              /\ response' = "reply"
              /\ utterances' = speakResponse(utterances, [kind |-> "reply", session |-> 0])
         ELSE /\ agentState' = FetchFailedState
              /\ UNCHANGED <<response, utterances>>
    /\ UNCHANGED <<isListening, platform, sessions>>
    /\ UNCHANGED <<durVars, avVars, srvVars>>

\* utterance.onend (lines 113-121) for the utterance being spoken: a reply
\* resets the state, the greeting arms the timer of its session again.
UtteranceEnds ==
    /\ utterances # <<>>
    /\ utterances' = Tail(utterances)
    /\ IF Head(utterances).kind = "reply"
         THEN /\ agentState' = "idle"
              /\ response' = ""
              /\ UNCHANGED sessions
         ELSE /\ sessions' = [sessions EXCEPT ![Head(utterances).session].noInputTimer = TRUE]
              /\ UNCHANGED <<agentState, response>>
    /\ UNCHANGED <<isListening, platform, fetches>>
    /\ UNCHANGED <<settled, durVars, avVars, srvVars>>

\* The utterance being spoken fails: the error event has no handler.
UtteranceFails ==
    /\ utterances # <<>>
    /\ utterances' = Tail(utterances)
    /\ UNCHANGED <<agentState, isListening, response, platform, sessions, fetches>>
    /\ UNCHANGED <<settled, durVars, avVars, srvVars>>

CliNext ==
    \/ ClickStart
    \/ \E s \in SessIds : OnStart(s)
    \/ \E s \in SessIds, seg \in Segments : OnResult(s, seg)
    \/ \E s \in SessIds, error \in RecognitionErrors : OnError(s, error)
    \/ \E s \in SessIds : OnEnd(s)
    \/ \E s \in SessIds : NoInputTimeout(s)
    \/ \E ok \in BOOLEAN : FetchSettles(ok)
    \/ UtteranceEnds
    \/ UtteranceFails

SpecDurInit == DurInit /\ AvParked /\ SrvParked /\ CliParked
SpecDurNext == DurApply
SpecDur == SpecDurInit /\ [][SpecDurNext]_vars

SpecAvailInit == AvInit /\ DurParked /\ SrvParked /\ CliParked
SpecAvailNext == AvApply
SpecAvail == SpecAvailInit /\ [][SpecAvailNext]_vars

SpecServerInit == SrvInit /\ DurParked /\ AvParked /\ CliParked
SpecServer == SpecServerInit /\ [][SrvNext]_vars

SpecClientInit == CliInit /\ DurParked /\ AvParked /\ SrvParked
SpecClient == SpecClientInit /\ [][CliNext]_vars

\* The client with a speech synthesis that reports an outcome, end or error,
\* for the utterance it is speaking.
SpecClientLive ==
    SpecClientInit /\ [][CliNext]_vars /\ WF_vars(UtteranceEnds \/ UtteranceFails)

\* The client in a silent room: no result event arrives, so that no call of
\* the chat endpoint is made.
SilenceNext ==
    \/ ClickStart
    \/ \E s \in SessIds : OnStart(s)
    \/ \E s \in SessIds, error \in RecognitionErrors : OnError(s, error)
    \/ \E s \in SessIds : OnEnd(s)
    \/ \E s \in SessIds : NoInputTimeout(s)
    \/ UtteranceEnds
    \/ UtteranceFails

\* Timeouts that are pending fire, and the speech synthesis reports an
\* outcome for the utterance it is speaking.
SpecSilence ==
    /\ SpecClientInit /\ [][SilenceNext]_vars
    /\ \A s \in SessIds : WF_vars(NoInputTimeout(s))
    /\ WF_vars(UtteranceEnds \/ UtteranceFails)

\* ----------------------------------------------------------------------
\* Claims about the client state machine (specification SpecClient)
\* ----------------------------------------------------------------------

\* A step that issues a call of /api/chat: only recognition.onresult calls
\* handleUserInput, so only a result event makes the outstanding calls grow.
CallIssued == fetches' > fetches

\* A step in which an outstanding call resolves or fails.
CallSettled == fetches' < fetches

\* C1 (as claimed): while agentState is thinking or speaking, the greeting
\* included, no recognition result event causes a new call of the chat
\* endpoint.
C1_NoCallWhileThinkingOrSpeaking ==
    [][CallIssued => agentState \notin {"thinking", "speaking"}]_vars

\* C2 (as claimed): at most one call of the chat endpoint is outstanding at
\* any time.
C2_AtMostOneCallInFlight == fetches <= 1

\* C3 (as claimed): when the session is back in idle while a call is still
\* outstanding, the response that arrives later is discarded: agentState
\* stays idle, the displayed response is not set and no utterance starts.
C3_LateResponseDiscarded ==
    [][(CallSettled /\ agentState = "idle") =>
            (agentState' = "idle" /\ response' = response /\ utterances' = utterances)]_vars

\* The step in which the utterance being spoken, of the given kind, is taken
\* off the queue.
C17_UtteranceLeaves(kind) ==
    /\ utterances # <<>> /\ Head(utterances).kind = kind
    /\ utterances' = Tail(utterances)

\* C17 (as claimed): when the greeting finishes playing (its end callback
\* arms the timer of its session) while the recognition of that session is
\* active, agentState becomes listening.
C17_GreetingEndsInListening ==
    [][(/\ C17_UtteranceLeaves("greeting")
        /\ sessions[Head(utterances).session].status = "active"
        /\ ~sessions[Head(utterances).session].noInputTimer
        /\ sessions'[Head(utterances).session].noInputTimer)
            => agentState' = "listening"]_vars

\* C18 (as claimed): when the utterance of a backend reply finishes (its end
\* callback clears the displayed response), agentState becomes listening and
\* a recognition is started or running.
C18_ReplyEndsInListening ==
    [][(C17_UtteranceLeaves("reply") /\ response # "" /\ response' = "")
            => /\ agentState' = "listening"
               /\ \E s \in SessIds : sessions'[s].status \in {"starting", "active"}]_vars

\* C19: from listening, a call of the chat endpoint is issued, and agentState
\* becomes thinking, only in a step after which the finalized transcript of a
\* running session is non-empty after trimming, and the two happen together;
\* a result event after which the finalized transcript of its session is
\* still empty or white space (the event brought interim segments or blank
\* final ones) arms the timer, issues no call and leaves agentState unchanged.
C19_CallOnlyOnFinalText ==
    [][ /\ (agentState = "listening" /\ (CallIssued \/ agentState' = "thinking")) =>
                /\ CallIssued /\ agentState' = "thinking"
                /\ \E s \in SessIds :
                        /\ sessions[s].status \in {"active", "stopping"}
                        /\ sessions'[s].finalTranscript = "text"
        /\ \A s \in SessIds :
                (/\ sessions'[s] # sessions[s]
                 /\ sessions'[s].status = sessions[s].status
                 /\ sessions'[s].noInputTimer
                 /\ sessions'[s].finalTranscript \in {"", " "}) =>
                        (fetches' = fetches /\ agentState' = agentState)
      ]_vars

\* C19 witness: the final text of one session caused the only call, and a
\* later session that received a final segment of white space is still
\* listening with its timer armed.
C19_Witness ==
    \E s1 \in SessIds, s2 \in SessIds :
        /\ sessions[s1].finalTranscript = "text"
        /\ sessions[s2].finalTranscript = " " /\ sessions[s2].status = "active"
        /\ sessions[s2].noInputTimer
        /\ agentState = "listening" /\ fetches = 1

\* C20 (as claimed): an error event of kind no-speech in an active
\* recognition changes nothing: the recognition goes on, isListening and
\* agentState keep their values.
C20_NoSpeechIgnored ==
    [][\A s \in SessIds :
            (sessions[s].status = "active" /\ sessions'[s].error = "no-speech") =>
                /\ sessions'[s].status = sessions[s].status
                /\ isListening' = isListening
                /\ agentState' = agentState]_vars

\* C21: when a call of the chat endpoint fails (the fetch rejects or the
\* status is not a success), agentState becomes idle, the displayed response
\* keeps its value and no utterance is queued.
C21_FailedCallResetsToIdle ==
    [][(CallSettled /\ settled' = "failed") =>
            (agentState' = "idle" /\ response' = response /\ utterances' = utterances)]_vars

\* C21 witness: a call has failed while the reply of an earlier call is still
\* displayed and being spoken; the state is idle, the reply and its utterance
\* are untouched.
C21_Witness ==
    /\ settled = "failed" /\ agentState = "idle"
    /\ response = "reply"
    /\ Len(utterances) = 1 /\ utterances[1].kind = "reply"

\* C24 (as claimed): a listening session in which no result ever arrives
\* speaks the greeting at the first timeout and stops at the next one after
\* the greeting, so that an active session with its timer armed always
\* eventually sees agentState idle.
C24_SilentSessionReachesIdle ==
    \A s \in SessIds :
        (sessions[s].status = "active" /\ sessions[s].noInputTimer) ~> (agentState = "idle")

\* C25 (as claimed): while the greeting of a session is being spoken, no
\* timer of that session is pending.
C25_NoTimerDuringGreeting ==
    (utterances # <<>> /\ Head(utterances).kind = "greeting") =>
        ~sessions[Head(utterances).session].noInputTimer

\* C27 (as claimed): whenever a call of the chat endpoint is outstanding,
\* agentState is thinking.
C27_ThinkingWhileCallOutstanding == fetches > 0 => agentState = "thinking"

\* C28 (as claimed): once a success response has set agentState to speaking,
\* agentState eventually leaves speaking, whether the utterance ends, fails,
\* or was never queued for want of speech synthesis.
C28_ReplySpeakingEnds ==
    (agentState = "speaking" /\ settled = "ok" /\ response = "reply")
        ~> (agentState # "speaking")

\* C29 (as claimed): a session whose end or error handler has run has no
\* timer pending.
C29_NoTimerAfterEnd ==
    \A s \in SessIds :
        sessions[s].status \in {"ended", "failed"} => ~sessions[s].noInputTimer

\* ----------------------------------------------------------------------
\* Claims about checkAvailability (specification SpecAvail)
\* ----------------------------------------------------------------------

AvCalled == avOut # "none"
AvFetched == avIn.env.key /\ avIn.env.uri /\ avIn.env.fetch = "ok"
AvRequestedEnd == AddMinutes(avIn.start, avIn.duration)

\* The three conditions of the conflict rule for one event.
C6_Conflict(ev) ==
    \/ (Ge(avIn.start, ev.start_time) /\ Lt(avIn.start, ev.end_time))
    \/ (Gt(AvRequestedEnd, ev.start_time) /\ Le(AvRequestedEnd, ev.end_time))
    \/ (Le(avIn.start, ev.start_time) /\ Ge(AvRequestedEnd, ev.end_time))

AvActiveEvents ==
    {avIn.env.events[i] : i \in {j \in 1..Len(avIn.env.events) :
                                    avIn.env.events[j].status = "active"}}

\* C6: with credentials present and the fetch successful, checkAvailability
\* returns false if and only if some fetched ACTIVE event has requestedStart in
\* [eventStart, eventEnd), or requestedEnd in (eventStart, eventEnd], or lies
\* inside the requested interval; events of another status never count.
C6_FalseIffActiveConflict ==
    (AvCalled /\ AvFetched) =>
        ((avOut = "false") <=> (\E ev \in AvActiveEvents : C6_Conflict(ev)))

\* C6 witness: a successful fetch returned a canceled event first and an
\* active one after it, both overlapping the request, and the call said false.
C6_Witness ==
    /\ AvCalled /\ AvFetched /\ avOut = "false"
    /\ Len(avIn.env.events) = 2
    /\ avIn.env.events[1].status = "canceled"
    /\ C6_Conflict(avIn.env.events[1])
    /\ avIn.env.events[2].status = "active"
    /\ C6_Conflict(avIn.env.events[2])

\* Half-open intersection of the requested interval with an event.
C7_Intersects(ev) ==
    avIn.start < ev.end_time /\ ev.start_time < AvRequestedEnd

C7_PositiveLengths ==
    /\ ~IsNaN(avIn.start) /\ ~IsNaN(avIn.duration) /\ avIn.duration > 0
    /\ \A ev \in AvActiveEvents : ev.start_time < ev.end_time

\* C7: when the requested interval and every active event have positive
\* length, checkAvailability reports a conflict exactly when the requested
\* interval intersects an active event as half-open intervals
\* (requestedStart < eventEnd and eventStart < requestedEnd); a request that
\* only touches an event at an end point is available.
C7_HalfOpenIntersection ==
    (AvCalled /\ AvFetched /\ C7_PositiveLengths) =>
        ((avOut = "false") <=> (\E ev \in AvActiveEvents : C7_Intersects(ev)))

\* C7 witness: the request starts exactly when one active event ends and ends
\* exactly when another starts, and is reported available.
C7_Witness ==
    /\ AvCalled /\ AvFetched /\ C7_PositiveLengths /\ avOut = "true"
    /\ \E ev \in AvActiveEvents : ev.end_time = avIn.start
    /\ \E ev \in AvActiveEvents : ev.start_time = AvRequestedEnd

\* C8: checkAvailability is fail-closed and never throws: its outcome is true
\* or false; it is false whenever the API key or the owner is missing, the
\* fetch answers with a non-success status, or the fetch or its parsing
\* throws; it is true only after a successful fetch with no conflicting
\* active event.
C8_FailClosed ==
    AvCalled =>
        /\ avOut \in {"true", "false"}
        /\ (~avIn.env.key \/ ~avIn.env.uri \/ avIn.env.fetch \in {"notOk", "throws"})
                => avOut = "false"
        /\ avOut = "true" =>
                (AvFetched /\ \A ev \in AvActiveEvents : ~C6_Conflict(ev))

\* C8 witness: credentials are present, the fetch threw, the call returned false.
C8_Witness ==
    /\ avIn.env.key /\ avIn.env.uri /\ avIn.env.fetch = "throws"
    /\ avOut = "false"

\* ----------------------------------------------------------------------
\* Claims about the chat endpoint (specification SpecServer)
\* ----------------------------------------------------------------------

\* The reply of the language model is a complete meeting request.
C4_CompleteRequest(q) ==
    /\ ~q.isInitial
    /\ q.ai.kind = "json" /\ q.ai.type = "meeting_request" /\ q.ai.hasDetails
    /\ q.ai.missingInfo = "empty"

\* C4: a request invokes checkAvailability or createOneOffEvent only if it is
\* a non-initial request whose model reply has type meeting_request, a details
\* object and a missingInfo list that is present and empty; a meeting request
\* with details whose missingInfo is non-empty or absent ends with the model's
\* response text, no scheduling URL and no scheduling call.
C4_SchedulingOnlyWhenComplete ==
    \A r \in ReqIds :
        /\ (reqs[r].calls # <<>> \/ reqs[r].pc \in {"avail", "create"})
                => C4_CompleteRequest(reqs[r])
        /\ ( /\ reqs[r].pc = "done" /\ ~reqs[r].isInitial
             /\ reqs[r].ai.type = "meeting_request" /\ reqs[r].ai.hasDetails
             /\ reqs[r].ai.missingInfo \in {"nonEmpty", "absent"} )
                => (reqs[r].reply = Reply(200, "model", FALSE) /\ reqs[r].calls = <<>>)

\* C4 witness: one request has finished after both scheduling calls, and
\* another, a meeting request whose missingInfo is absent, has finished with
\* the model's text and without any.
C4_Witness ==
    \E r1 \in ReqIds, r2 \in ReqIds :
        /\ reqs[r1].pc = "done" /\ reqs[r1].calls = <<"check", "create">>
        /\ reqs[r2].pc = "done" /\ ~reqs[r2].isInitial
        /\ reqs[r2].ai.type = "meeting_request" /\ reqs[r2].ai.hasDetails
        /\ reqs[r2].ai.missingInfo = "absent"
        /\ reqs[r2].reply = Reply(200, "model", FALSE) /\ reqs[r2].calls = <<>>

\* C5: in a request, createOneOffEvent is called only after checkAvailability
\* was called in that request and returned true; when checkAvailability
\* returned false, createOneOffEvent is not called in that request and the
\* reply carries no scheduling URL.
C5_BookOnlyAfterAvailable ==
    \A r \in ReqIds :
        /\ (reqs[r].pc = "create" \/ reqs[r].booked # NoBook
                \/ \E i \in 1..Len(reqs[r].calls) : reqs[r].calls[i] = "create")
                => (reqs[r].calls = <<"check", "create">> /\ reqs[r].isAvailable = "true")
        /\ reqs[r].isAvailable = "false"
                => (reqs[r].calls = <<"check">> /\ ~reqs[r].reply.url)
        /\ reqs[r].reply.url => reqs[r].isAvailable = "true"

\* C5 witness: a request whose availability check said false has finished
\* with the fixed refusal and without a booking call.
C5_Witness ==
    \E r \in ReqIds :
        /\ reqs[r].pc = "done" /\ reqs[r].isAvailable = "false"
        /\ reqs[r].calls = <<"check">>
        /\ reqs[r].reply = Reply(200, "notAvailable", FALSE)

\* The step in which request r merges a meeting_request reply (line 83).
C10_MergeStep(r) ==
    /\ reqs[r].pc = "llm" /\ reqs'[r].pc # "llm"
    /\ reqs'[r].ai.type = "meeting_request" /\ reqs'[r].ai.hasDetails

\* C10 (as claimed): merging a meeting_request reply never blanks a field:
\* every field that held a non-empty value before the merge holds a non-empty
\* value after it, whatever details object the model returned.
C10_MergeNeverBlanks ==
    [][\A r \in ReqIds : C10_MergeStep(r) =>
            \A f \in Fields : NonEmpty(meetingDetails, f) => NonEmpty(meetingDetails', f)]_vars

\* The step in which createOneOffEvent settles for request r.
C11_CreateSettles(r) == reqs[r].pc = "create" /\ reqs'[r].pc = "done"

\* C11: a booking that returns a scheduling URL appends the URL to the reply
\* text and resets meetingDetails to the empty object, and no other step
\* removes a field: in every step that is not such a booking, every key
\* meetingDetails had is still a key of it afterwards.
C11_OnlySuccessClears ==
    [][ /\ \A r \in ReqIds :
            (C11_CreateSettles(r) /\ reqs'[r].created = "schedulingUrl") =>
                (reqs'[r].reply = Reply(200, "model", TRUE) /\ meetingDetails' = EmptyObj)
        /\ (\E f \in DOMAIN meetingDetails : f \notin DOMAIN meetingDetails') =>
                \E r \in ReqIds :
                    C11_CreateSettles(r) /\ reqs'[r].created = "schedulingUrl"
      ]_vars

\* C11 witness: one request has finished with a scheduling URL, which emptied
\* meetingDetails, and after it another request merged its details and had
\* its booking fail, which left the merged fields stored.
C11_Witness ==
    \E r1 \in ReqIds, r2 \in ReqIds :
        /\ reqs[r1].pc = "done" /\ reqs[r1].created = "schedulingUrl"
        /\ reqs[r1].reply = Reply(200, "model", TRUE)
        /\ reqs[r2].pc = "done" /\ reqs[r2].created = "errorNoSchedulingUrl"
        /\ DOMAIN meetingDetails = Fields

\* The window request r gave to checkAvailability intersects an active event
\* among those the call fetched.
C12_SlotIsBusy(r) ==
    LET start == StartOf(reqs[r].checked.date, reqs[r].checked.time)
        minutes == reqs[r].checked.minutes
    IN  /\ start # NaN /\ minutes # NaN /\ minutes > 0
        /\ \E ev \in reqs'[r].events :
                /\ ev.status = "active"
                /\ start < ev.end_time /\ ev.start_time < start + minutes

C13_CredentialsMissing(env) == ~env.key \/ ~env.uri

\* C13: without the API key or the owner, createOneOffEvent returns the
\* missing-credentials error whatever the provider would answer, and does not
\* throw; and a request whose model reply is a complete meeting request ends
\* with status 200 and a reply text, never with status 500.
C13_MissingCredentialsRecovered ==
    /\ \A env \in [key : BOOLEAN, uri : BOOLEAN], outcome \in CreateOutcomes :
            C13_CredentialsMissing(env) =>
                createOneOffEvent(env, outcome) = "errorMissingCredentials"
    /\ \A r \in ReqIds :
            (C13_CredentialsMissing(creds) /\ reqs[r].pc = "done"
                /\ C4_CompleteRequest(reqs[r])) =>
                    (reqs[r].reply.status = 200 /\ reqs[r].reply.text # "")

\* C13 witness: the owner is not configured and a complete meeting request
\* has been answered with status 200.
C13_Witness ==
    /\ creds.key /\ ~creds.uri
    /\ \E r \in ReqIds :
            /\ reqs[r].pc = "done" /\ C4_CompleteRequest(reqs[r])
            /\ reqs[r].calls = <<"check">>
            /\ reqs[r].reply.status = 200

\* C14 (as claimed): when createOneOffEvent returns an error after the slot
\* was found available, the reply has status 200, its text carries an error
\* message about the booking instead of being the model's text alone, it has
\* no scheduling URL, and meetingDetails is not cleared.
C14_BookingFailureReported ==
    [][\A r \in ReqIds :
            (C11_CreateSettles(r) /\ reqs'[r].created # "schedulingUrl") =>
                /\ reqs'[r].reply.status = 200
                /\ reqs'[r].reply.text # "model"
                /\ ~reqs'[r].reply.url
                /\ meetingDetails' = meetingDetails
      ]_vars

\* C15 (as claimed): when the completion call throws, the request is answered
\* with the generic apology and status 200, so that the client speaks it.
C15_LlmFailureRecovered ==
    [][\A r \in ReqIds :
            (reqs[r].pc = "llm" /\ reqs'[r].ai.kind = "throws") =>
                reqs'[r].reply = Reply(200, "apology", FALSE)
      ]_vars

\* The step in which a non-initial request r gets a model reply that is not
\* JSON, or is JSON of an unrecognised type.
C16_MalformedReply(r) ==
    /\ reqs[r].pc = "llm" /\ reqs'[r].pc # "llm" /\ ~reqs[r].isInitial
    /\ \/ reqs'[r].ai.kind = "unparseable"
       \/ /\ reqs'[r].ai.kind = "json"
          /\ reqs'[r].ai.type \notin {"meeting_request", "general_response", "greeting"}

\* C16: a non-initial request whose model reply does not parse, or parses but
\* has an unrecognised type, is answered with status 200 and one of the two
\* generic texts that end in "Please try again.", makes no scheduling call
\* and leaves meetingDetails unchanged.
C16_MalformedReplyRecovered ==
    [][\A r \in ReqIds :
            C16_MalformedReply(r) =>
                /\ reqs'[r].pc = "done"
                /\ reqs'[r].reply.status = 200
                /\ reqs'[r].reply.text \in {"parseError", "invalid"}
                /\ ~reqs'[r].reply.url
                /\ reqs'[r].calls = <<>>
                /\ meetingDetails' = meetingDetails
      ]_vars

\* C16 witness: with details stored, one request has been answered after a
\* reply that did not parse and another after a reply of an unknown type.
C16_Witness ==
    \E r1 \in ReqIds, r2 \in ReqIds :
        /\ reqs[r1].pc = "done" /\ ~reqs[r1].isInitial
        /\ reqs[r1].ai.kind = "unparseable"
        /\ reqs[r1].reply = Reply(200, "parseError", FALSE)
        /\ reqs[r2].pc = "done" /\ ~reqs[r2].isInitial
        /\ reqs[r2].ai.kind = "json" /\ reqs[r2].ai.type = "other"
        /\ reqs[r2].reply = Reply(200, "invalid", FALSE)
        /\ meetingDetails # EmptyObj

\* C22: the merge is idempotent: after a request has merged a details object
\* into meetingDetails, merging the same object once more would leave every
\* field with the value it has.
C22_MergeIdempotent ==
    [][\A r \in ReqIds : C10_MergeStep(r) =>
            \A d \in DetailObjs :
                meetingDetails' = Spread(meetingDetails, d) =>
                    Spread(meetingDetails', d) = meetingDetails']_vars

\* C22 witness: two requests have each merged a details object, and the
\* record holds the prompt's template with its blank fields, which a second
\* merge of the template reproduces.
C22_Witness ==
    \E r1 \in ReqIds, r2 \in ReqIds :
        /\ r1 # r2
        /\ reqs[r1].pc = "done" /\ reqs[r1].ai.hasDetails
        /\ reqs[r2].pc = "done" /\ reqs[r2].ai.hasDetails
        /\ DOMAIN meetingDetails = Fields
        /\ meetingDetails["attendee"] = "Sam" /\ meetingDetails["date"] = ""

\* C23: meetingDetails is shared and read again after each await.  When a
\* request calls createOneOffEvent, the date and the name it asks for are
\* those meetingDetails holds at that moment, whatever the request checked;
\* and while a request awaits checkAvailability or createOneOffEvent,
\* meetingDetails changes only by a step of another request, its merge or its
\* successful booking.
C23_SharedRecordReadAgain ==
    [][\A r \in ReqIds :
        /\ (reqs[r].pc = "avail" /\ reqs'[r].pc = "create") =>
                /\ reqs'[r].booked.date =
                        (IF NonEmpty(meetingDetails, "date")
                            THEN meetingDetails["date"] ELSE "2025-01-01")
                /\ reqs'[r].booked.name =
                        (IF NonEmpty(meetingDetails, "purpose")
                            THEN meetingDetails["purpose"] ELSE "One-Off Meeting")
        /\ ( /\ reqs[r].pc \in {"avail", "create"} /\ reqs'[r] = reqs[r]
             /\ meetingDetails' # meetingDetails ) =>
                \E r2 \in ReqIds \ {r} :
                    /\ reqs[r2].pc \in {"llm", "create"}
                    /\ reqs'[r2].pc # reqs[r2].pc
      ]_vars

\* C23 witness: a request that checked the slot of 2025-03-01 asks for an
\* event on the fallback date, because the successful booking of another
\* request emptied meetingDetails while the check was awaited.
C23_Witness ==
    \E r \in ReqIds, r2 \in ReqIds :
        /\ r2 # r
        /\ reqs[r].pc = "create" /\ reqs[r].checked.date = TheDate
        /\ reqs[r].booked.date = "2025-01-01"
        /\ reqs[r2].pc = "done" /\ reqs[r2].created = "schedulingUrl"
        /\ meetingDetails = EmptyObj

\* A request that is not to touch the schedule: an opening-turn request, one
\* whose completion threw or came back empty, or one whose reply has type
\* general_response or greeting.
C30_Exempt(q) ==
    \/ q.isInitial
    \/ q.ai.kind \in {"throws", "empty"}
    \/ q.ai.kind = "json" /\ q.ai.type \in {"general_response", "greeting"}

\* C30: the step that ends the completion of such a request finishes the
\* request, leaves meetingDetails unchanged and makes no scheduling call.
C30_ExemptRequestsLeaveDetails ==
    [][\A r \in ReqIds :
            (reqs[r].pc = "llm" /\ reqs'[r].pc # "llm" /\ C30_Exempt(reqs'[r])) =>
                /\ reqs'[r].pc = "done"
                /\ reqs'[r].calls = <<>>
                /\ meetingDetails' = meetingDetails
      ]_vars

\* C30 witness: with all five fields stored, an opening-turn request and a
\* request answered with a general_response have both finished.
C30_Witness ==
    \E r1 \in ReqIds, r2 \in ReqIds :
        /\ reqs[r1].pc = "done" /\ reqs[r1].isInitial /\ reqs[r1].ai.kind = "json"
        /\ reqs[r2].pc = "done" /\ ~reqs[r2].isInitial
        /\ reqs[r2].ai.type = "general_response" /\ reqs[r2].ai.missingInfo = "empty"
        /\ reqs[r1].calls = <<>> /\ reqs[r2].calls = <<>>
        /\ DOMAIN meetingDetails = Fields

\* ----------------------------------------------------------------------
\* Claims about parseDurationString (specification SpecDur)
\* ----------------------------------------------------------------------

DurCalled == durOut # <<>>

C9_Mentions(text, word) == includes(toLowerCase(text), word)
C9_LeadingInt(text) == parseInt(trim(toLowerCase(text)))
C9_Max(a, b) == IF a >= b THEN a ELSE b

\* The stated normalization of a duration text.
C9_Normalized(text) ==
    LET n == C9_LeadingInt(text)
    IN  CASE text = Undefined \/ text = <<>> -> 30
          [] C9_Mentions(text, <<"h", "o", "u", "r">>) \/ C9_Mentions(text, <<"h", "r">>) ->
                IF n # NaN /\ n >= 1 THEN 60 * n ELSE 30
          [] C9_Mentions(text, <<"m", "i", "n">>) ->
                IF n # NaN /\ n >= 5 THEN n ELSE 30
          [] n # NaN /\ n > 0 -> C9_Max(n, 5)
          [] OTHER -> 30

\* The examples of the normalization: text, minutes.
C9_Examples ==
    { <<Undefined, 30>>, << <<>>, 30>>,
      << <<"2", " ", "h", "o", "u", "r", "s">>, 120>>,
      << <<"4", "5", " ", "m", "i", "n">>, 45>>,
      << <<"3", " ", "m", "i", "n">>, 30>>,
      << <<"1", "0">>, 10>>,
      << <<"2">>, 5>> }

\* C9: parseDurationString follows the stated normalization on every input
\* (absent or empty: 30; mentions hour or hr: 60 times the leading integer if
\* it is at least 1, else 30; else mentions min: the leading integer if it is
\* at least 5, else 30; else a leading positive integer n: max(n, 5); else 30),
\* and gives 120, 45, 30, 10, 30, 5 on the examples of the specification.
C9_DurationNormalization ==
    DurCalled =>
        /\ durOut[1] = C9_Normalized(durIn)
        /\ \A ex \in C9_Examples : durIn = ex[1] => durOut[1] = ex[2]

\* C9 witness: the bare numeral "2" was parsed and clamped up to 5.
C9_Witness == durIn = <<"2">> /\ durOut = <<5>>

\* C31: for every duration text, and for an absent one, parseDurationString
\* returns a whole number of minutes that is at least 5: never NaN, never
\* zero, never a negative number.
C31_AtLeastFiveMinutes ==
    DurCalled =>
        /\ ~IsNaN(durOut[1])
        /\ durOut[1] \in Nat
        /\ durOut[1] >= 5

\* C31 witness: a negative number of hours was given and 30 came back.
C31_Witness == durIn = <<"-", "2", "h", "r">> /\ durOut = <<30>>

\* The minutes the endpoint gives to checkAvailability for a stored duration
\* text: parseInt(duration || '30').
C26_CheckedMinutes(text) ==
    parseInt(IF text = Undefined \/ text = <<>> THEN <<"3", "0">> ELSE text)

\* C26 (as claimed): for every stored duration text, the minutes given to
\* checkAvailability equal the minutes createOneOffEvent derives with
\* parseDurationString.
C26_CheckedEqualsBooked ==
    DurCalled => C26_CheckedMinutes(durIn) = durOut[1]

====
